---- MODULE Spec2Model ----
(***************************************************************************)
(* Model of the trading-signal engine of the TradingSignals component:     *)
(* generateTradingSignal (the decision, confidence, price levels and       *)
(* risk/reward ratio) and the risk-level step of generateSignalData.       *)
(*                                                                         *)
(* JavaScript numbers are modelled as exact fractions [n, d] in lowest     *)
(* terms with d > 0; the non-finite values of IEEE arithmetic keep d = 0:  *)
(* NaN is 0/0, +Infinity 1/0 and -Infinity -1/0.  Rounding error of the    *)
(* binary floating point representation is not modelled.                   *)
(***************************************************************************)
EXTENDS Integers, Sequences, FiniteSets, TLC

VARIABLES
    price,        \* argument `price` of generateTradingSignal
    indicators,   \* argument `indicators`
    sentiment,    \* argument `sentiment`
    signal,       \* the TradingSignal returned (NoSignal before the call)
    pc,           \* "call" before generateTradingSignal ran, "return" after
    confA,        \* a confidence handed to the risk-level step
    confB,        \* a second confidence handed to the risk-level step
    riskA,        \* riskLevel determined for confA ("none" before)
    riskB,        \* riskLevel determined for confB ("none" before)
    selectedStock,   \* Index: the selectedStock state handed to the cards
    news,            \* NewsAnalyzer: the news state
    newsLoading,     \* NewsAnalyzer: the isLoading state
    newsLastUpdated, \* NewsAnalyzer: lastUpdated is set (TRUE) or null (FALSE)
    newsToast,       \* NewsAnalyzer: title of the last toast ("none" before)
    newsFetches,     \* NewsAnalyzer: the calls of fetchYahooFinanceNews in flight
    newsSettled,     \* the stock and the responses of the call that settled last
    newsUnhandled,   \* a rejection left fetchYahooFinanceNews
    signalData,      \* TradingSignals: signalData, << >> for null
    sigLoading,      \* TradingSignals: the isLoading state
    sigLastUpdated,  \* TradingSignals: lastUpdated is set (TRUE) or null (FALSE)
    sigToast,        \* TradingSignals: the last toast, its title and the stock
                     \* its description names
    sigFetches,      \* TradingSignals: the stocks of the fetchSignals calls
                     \* waiting for their timer, oldest first
    evalA,           \* one of two calls of generateTradingSignal on the same
                     \* indicators and sentiment: its price, draws and result
    evalB,           \* the other call
    chartData,       \* TradingChart: the chartData state
    timeframe,       \* TradingChart: the timeframe state
    chartLoading,    \* TradingChart: the isLoading state
    chartFetches,    \* TradingChart: the timeframes of the fetchChartData calls
                     \* waiting for their timer, oldest first
    user,            \* AuthProvider: the user state (Null or a user)
    token,           \* AuthProvider: the token state (Null or a string)
    authLoading,     \* AuthProvider: the isLoading state
    storage,         \* localStorage: the items 'auth_token' and 'user_data'
    url,             \* the parameters 'token' and 'user' of window.location.search
    authToast,       \* title of the last toast of AuthProvider ("none" before)
    authPc,          \* the page: "rendered" (first render done, effects not
                     \* yet run), "restored" (first effect done), "mounted",
                     \* "crashed" (an effect threw) or "redirecting" (login()
                     \* has set window.location.href)
    sinceLogout      \* logout() was called and the page has since only been
                     \* loaded without OAuth parameters

engineVars == <<price, indicators, sentiment, signal, pc>>
riskVars == <<confA, confB, riskA, riskB>>
newsState ==
    <<news, newsLoading, newsLastUpdated, newsToast, newsFetches, newsSettled,
      newsUnhandled>>
newsVars == <<selectedStock, newsState>>
sigVars == <<signalData, sigLoading, sigLastUpdated, sigToast, sigFetches>>

pairVars == <<evalA, evalB>>

chartVars == <<chartData, timeframe, chartLoading, chartFetches>>
authVars ==
    <<user, token, authLoading, storage, url, authToast, authPc, sinceLogout>>

vars == <<engineVars, riskVars, newsVars, sigVars, pairVars, chartVars, authVars>>

\* what the steps of one part of the model leave alone
notEngine == <<riskVars, newsVars, sigVars, pairVars, chartVars, authVars>>
notRisk == <<engineVars, newsVars, sigVars, pairVars, chartVars, authVars>>
notNews == <<engineVars, riskVars, sigVars, pairVars, chartVars, authVars>>
notSignals == <<engineVars, riskVars, newsState, pairVars, chartVars, authVars>>
notPair == <<price, signal, pc, riskVars, newsVars, sigVars, chartVars, authVars>>
notChart == <<engineVars, riskVars, newsState, sigVars, pairVars, authVars>>
notAuth == <<engineVars, riskVars, newsVars, sigVars, pairVars, chartVars>>

----------------------------------------------------------------------------
(* Bounds of the model *)

\* longest indicator list handed to generateTradingSignal
MaxInd == 3
\* calculateTechnicalIndicators draws Math.random() from
\* {0, 1/IndRes, ..., (IndRes-1)/IndRes}
IndRes == 10
\* most items in a response of the news feed
MaxItems == 2
\* most calls of fetchYahooFinanceNews in flight at once
MaxNewsFetches == 2
\* fetchSignals calls of TradingSignals waiting for their timer at one time
MaxSigFetches == 3
\* fetchChartData calls of TradingChart waiting for their timer at one time
MaxChartFetches == 3
\* Math.random() is drawn from {0, 1/RandRes, ..., (RandRes-1)/RandRes}
RandRes == 2

----------------------------------------------------------------------------
(* Numbers *)

Abs(i) == IF i < 0 THEN -i ELSE i

RECURSIVE Gcd(_, _)
Gcd(a, b) == IF b = 0 THEN a ELSE Gcd(b, a % b)

Sgn(i) == IF i > 0 THEN 1 ELSE IF i < 0 THEN -1 ELSE 0

\* the number n/d; d = 0 gives NaN (n = 0) or a signed infinity
Rat(n, d) ==
    IF d = 0 THEN [n |-> Sgn(n), d |-> 0]
    ELSE LET g == Gcd(Abs(n), Abs(d))
             s == IF d < 0 THEN -1 ELSE 1
         IN  [n |-> s * (n \div g), d |-> s * (d \div g)]

Num(i) == Rat(i, 1)
NaN == [n |-> 0, d |-> 0]
IsNaN(x) == x.d = 0 /\ x.n = 0
IsFinite(x) == x.d # 0

\* a + b: NaN is absorbing, Infinity - Infinity is NaN
RAdd(a, b) ==
    IF IsNaN(a) \/ IsNaN(b) THEN NaN
    ELSE IF a.d = 0 /\ b.d = 0 THEN (IF a.n = b.n THEN a ELSE NaN)
    ELSE IF a.d = 0 THEN a
    ELSE IF b.d = 0 THEN b
    ELSE LET g == Gcd(a.d, b.d)
         IN  Rat(a.n * (b.d \div g) + b.n * (a.d \div g), a.d * (b.d \div g))

RNeg(a) == [n |-> -a.n, d |-> a.d]

RSub(a, b) == RAdd(a, RNeg(b))

\* a * b: 0 * Infinity is NaN
RMul(a, b) ==
    IF IsNaN(a) \/ IsNaN(b) THEN NaN
    ELSE IF a.d = 0 \/ b.d = 0 THEN Rat(Sgn(a.n) * Sgn(b.n), 0)
    ELSE LET g == Gcd(Abs(a.n), b.d)
             h == Gcd(Abs(b.n), a.d)
         IN  Rat((a.n \div g) * (b.n \div h), (a.d \div h) * (b.d \div g))

\* a / b: 0/0 and Infinity/Infinity are NaN, x/0 is a signed infinity
RDiv(a, b) ==
    IF IsNaN(a) \/ IsNaN(b) THEN NaN
    ELSE IF a.d = 0 /\ b.d = 0 THEN NaN
    ELSE IF a.d = 0 THEN Rat(a.n * (IF b.n < 0 THEN -1 ELSE 1), 0)
    ELSE IF b.d = 0 THEN Num(0)
    ELSE IF b.n = 0 THEN Rat(Sgn(a.n), 0)
    ELSE LET g == Gcd(Abs(a.n), Abs(b.n))
             h == Gcd(a.d, b.d)
         IN  Rat((a.n \div g) * (b.d \div h), (a.d \div h) * (b.n \div g))

\* a < b: every comparison with NaN is false
RLt(a, b) ==
    IF IsNaN(a) \/ IsNaN(b) THEN FALSE
    ELSE IF a.d = 0 /\ b.d = 0 THEN a.n < b.n
    ELSE IF a.d = 0 THEN a.n < 0
    ELSE IF b.d = 0 THEN b.n > 0
    ELSE a.n * b.d < b.n * a.d

RGt(a, b) == RLt(b, a)
RLe(a, b) == ~IsNaN(a) /\ ~IsNaN(b) /\ ~RLt(b, a)
RGe(a, b) == RLe(b, a)

\* Math.abs
MathAbs(a) == [n |-> Abs(a.n), d |-> a.d]

\* Math.min(a, b): NaN if either is NaN
MathMin(a, b) ==
    IF IsNaN(a) \/ IsNaN(b) THEN NaN
    ELSE IF RLt(b, a) THEN b ELSE a

\* the values Math.random() is drawn from, all in [0, 1)
MathRandom == {Rat(k, RandRes) : k \in 0 .. RandRes - 1}

\* Number.prototype.toFixed(1): x rounded to one decimal (halves away from
\* zero); a non-finite x is printed as it is
ToFixed1(x) ==
    IF x.d = 0 THEN x
    ELSE LET m == 2 * x.d
             q == (20 * Abs(x.n) + x.d) \div m
         IN  Rat(Sgn(x.n) * q, 10)

----------------------------------------------------------------------------
(* calculateTechnicalIndicators *)

\* one element of the indicator list (its description, a fixed text, is left out)
Indicator(name, value, sig, strength) ==
    [name |-> name, value |-> value, signal |-> sig, strength |-> strength]

\* RsiIndicator with the thresholds written <= 30 and >= 70
RsiIndicator_Inclusive(r) ==
    LET rsi == RMul(r, Num(100))
    IN  Indicator("RSI (14)", rsi,
                  IF RLe(rsi, Num(30)) THEN "BUY"
                  ELSE IF RGe(rsi, Num(70)) THEN "SELL" ELSE "HOLD",
                  RMul(RDiv(MathAbs(RSub(rsi, Num(50))), Num(50)), Num(100)))

\* RSI: rsi = Math.random() * 100
RsiIndicator(r) ==
    LET rsi == RMul(r, Num(100))
    IN  Indicator("RSI (14)", rsi,
                  IF RLt(rsi, Num(30)) THEN "BUY"
                  ELSE IF RGt(rsi, Num(70)) THEN "SELL" ELSE "HOLD",
                  RMul(RDiv(MathAbs(RSub(rsi, Num(50))), Num(50)), Num(100)))

\* MacdIndicator with the strength scaled by 50 instead of 20
MacdIndicator_Scale50(r) ==
    LET macd == RMul(RSub(r, Rat(1, 2)), Num(5))
    IN  Indicator("MACD", macd,
                  IF RGt(macd, Num(0)) THEN "BUY"
                  ELSE IF RLt(macd, Num(-1)) THEN "SELL" ELSE "HOLD",
                  RMul(MathAbs(macd), Num(50)))

\* MACD: macd = (Math.random() - 0.5) * 5
MacdIndicator(r) ==
    LET macd == RMul(RSub(r, Rat(1, 2)), Num(5))
    IN  Indicator("MACD", macd,
                  IF RGt(macd, Num(0)) THEN "BUY"
                  ELSE IF RLt(macd, Num(-1)) THEN "SELL" ELSE "HOLD",
                  RMul(MathAbs(macd), Num(20)))

\* MaCrossIndicator with HOLD for equal moving averages
MaCrossIndicator_HoldOnEqual(p, r20, r50) ==
    LET ma20 == RMul(p, RAdd(Rat(95, 100), RMul(r20, Rat(1, 10))))
        ma50 == RMul(p, RAdd(Rat(92, 100), RMul(r50, Rat(16, 100))))
    IN  Indicator("MA Cross",
                  RMul(RDiv(RSub(ma20, ma50), ma50), Num(100)),
                  IF RGt(ma20, ma50) THEN "BUY"
                  ELSE IF RLt(ma20, ma50) THEN "SELL" ELSE "HOLD",
                  RMul(MathAbs(RDiv(RSub(ma20, ma50), ma50)), Num(500)))

\* MA Cross: ma20 = price * (0.95 + Math.random() * 0.1),
\*           ma50 = price * (0.92 + Math.random() * 0.16)
MaCrossIndicator(p, r20, r50) ==
    LET ma20 == RMul(p, RAdd(Rat(95, 100), RMul(r20, Rat(1, 10))))
        ma50 == RMul(p, RAdd(Rat(92, 100), RMul(r50, Rat(16, 100))))
    IN  Indicator("MA Cross",
                  RMul(RDiv(RSub(ma20, ma50), ma50), Num(100)),
                  IF RGt(ma20, ma50) THEN "BUY" ELSE "SELL",
                  RMul(MathAbs(RDiv(RSub(ma20, ma50), ma50)), Num(500)))

\* Bollinger Bands: the position of price between price * 0.98 and price * 1.02
BollingerIndicator(p) ==
    LET upperBand == RMul(p, Rat(102, 100))
        lowerBand == RMul(p, Rat(98, 100))
        bbPosition == RMul(RDiv(RSub(p, lowerBand), RSub(upperBand, lowerBand)),
                           Num(100))
    IN  Indicator("Bollinger Bands", bbPosition,
                  IF RLt(bbPosition, Num(20)) THEN "BUY"
                  ELSE IF RGt(bbPosition, Num(80)) THEN "SELL" ELSE "HOLD",
                  RMul(MathAbs(RSub(bbPosition, Num(50))), Num(2)))

\* Volume: volumeStrength = Math.random() * 100
VolumeIndicator(r) ==
    LET volumeStrength == RMul(r, Num(100))
    IN  Indicator("Volume", volumeStrength,
                  IF RGt(volumeStrength, Num(70)) THEN "BUY"
                  ELSE IF RLt(volumeStrength, Num(30)) THEN "SELL" ELSE "HOLD",
                  volumeStrength)

\* calculateTechnicalIndicators that pushes the volume indicator before the
\* Bollinger bands
calculateTechnicalIndicators_Reordered(p, d) ==
    <<RsiIndicator(d[1]),
      MacdIndicator(d[2]),
      MaCrossIndicator(p, d[3], d[4]),
      VolumeIndicator(d[5]),
      BollingerIndicator(p)>>

\* calculateTechnicalIndicators(price); d holds the values of its five
\* Math.random() calls in the order they are made
calculateTechnicalIndicators(p, d) ==
    <<RsiIndicator(d[1]),
      MacdIndicator(d[2]),
      MaCrossIndicator(p, d[3], d[4]),
      BollingerIndicator(p),
      VolumeIndicator(d[5])>>

\* the values the five draws are taken from, all in [0, 1)
IndicatorRandom == {Rat(k, IndRes) : k \in 0 .. IndRes - 1}

----------------------------------------------------------------------------
(* generateTradingSignal *)

\* indicators.filter(ind => ind.signal === sig).length
CountSignals(inds, sig) ==
    Cardinality({i \in DOMAIN inds : inds[i].signal = sig})

\* indicators.filter(ind => ind.signal === sig)
\*           .reduce((sum, ind) => sum + ind.strength, 0)
RECURSIVE SumStrength(_, _)
SumStrength(inds, sig) ==
    IF inds = << >> THEN Num(0)
    ELSE LET n == Len(inds)
             rest == SumStrength(SubSeq(inds, 1, n - 1), sig)
         IN  IF inds[n].signal = sig THEN RAdd(rest, inds[n].strength)
             ELSE rest

\* const sentimentWeight = sentiment * 20
SentimentWeight(s) == RMul(s, Num(20))

\* buyStrength + (sentiment > 0 ? sentimentWeight : 0)
TotalBuyStrength(inds, s) ==
    RAdd(SumStrength(inds, "BUY"),
         IF RGt(s, Num(0)) THEN SentimentWeight(s) ELSE Num(0))

\* TotalSellStrength without Math.abs around the sentiment weight
TotalSellStrength_Signed(inds, s) ==
    RAdd(SumStrength(inds, "SELL"),
         IF RLt(s, Num(0)) THEN SentimentWeight(s) ELSE Num(0))

\* sellStrength + (sentiment < 0 ? Math.abs(sentimentWeight) : 0)
TotalSellStrength(inds, s) ==
    RAdd(SumStrength(inds, "SELL"),
         IF RLt(s, Num(0)) THEN MathAbs(SentimentWeight(s)) ELSE Num(0))

\* Action with the BUY gate written buySignals > 2
Action_BuyGateStrict(inds, s) ==
    LET tb == TotalBuyStrength(inds, s)
        ts == TotalSellStrength(inds, s)
    IN  IF RGt(tb, ts) /\ CountSignals(inds, "BUY") > 2 THEN "BUY"
        ELSE IF RGt(ts, tb) /\ CountSignals(inds, "SELL") >= 2 THEN "SELL"
        ELSE "HOLD"

\* Action with the SELL gate written sellSignals > 2
Action_SellGateStrict(inds, s) ==
    LET tb == TotalBuyStrength(inds, s)
        ts == TotalSellStrength(inds, s)
    IN  IF RGt(tb, ts) /\ CountSignals(inds, "BUY") >= 2 THEN "BUY"
        ELSE IF RGt(ts, tb) /\ CountSignals(inds, "SELL") > 2 THEN "SELL"
        ELSE "HOLD"

\* Action comparing the totals with >= instead of >
Action_TieWins(inds, s) ==
    LET tb == TotalBuyStrength(inds, s)
        ts == TotalSellStrength(inds, s)
    IN  IF RGe(tb, ts) /\ CountSignals(inds, "BUY") >= 2 THEN "BUY"
        ELSE IF RGe(ts, tb) /\ CountSignals(inds, "SELL") >= 2 THEN "SELL"
        ELSE "HOLD"

\* Action with the count gates written >= 1
Action_GateOne(inds, s) ==
    LET tb == TotalBuyStrength(inds, s)
        ts == TotalSellStrength(inds, s)
    IN  IF RGt(tb, ts) /\ CountSignals(inds, "BUY") >= 1 THEN "BUY"
        ELSE IF RGt(ts, tb) /\ CountSignals(inds, "SELL") >= 1 THEN "SELL"
        ELSE "HOLD"

\* Action with HOLD reached only when the two totals compare
Action_NoDefault(inds, s) ==
    LET tb == TotalBuyStrength(inds, s)
        ts == TotalSellStrength(inds, s)
    IN  IF RGt(tb, ts) /\ CountSignals(inds, "BUY") >= 2 THEN "BUY"
        ELSE IF RGt(ts, tb) /\ CountSignals(inds, "SELL") >= 2 THEN "SELL"
        ELSE IF RLe(tb, ts) \/ RLe(ts, tb) THEN "HOLD"
        ELSE "undefined"

\* the branch taken by the if / else if / else that sets `action`
Action(inds, s) ==
    LET tb == TotalBuyStrength(inds, s)
        ts == TotalSellStrength(inds, s)
    IN  IF RGt(tb, ts) /\ CountSignals(inds, "BUY") >= 2 THEN "BUY"
        ELSE IF RGt(ts, tb) /\ CountSignals(inds, "SELL") >= 2 THEN "SELL"
        ELSE "HOLD"

\* WinConfidence without the Math.min(95, ...) cap
WinConfidence_NoCap(win, tb, ts) ==
    RMul(RDiv(win, RAdd(tb, ts)), Num(100))

\* Math.min(95, (winning / (totalBuyStrength + totalSellStrength)) * 100)
WinConfidence(win, tb, ts) ==
    MathMin(Num(95), RMul(RDiv(win, RAdd(tb, ts)), Num(100)))

\* confidence = 50 + Math.random() * 20
HoldConfidence(r) == RAdd(Num(50), RMul(r, Num(20)))

\* Confidence drawn at random on every branch
Confidence_AlwaysDrawn(inds, s, rHold) == HoldConfidence(rHold)

\* `confidence` as the taken branch sets it; rHold is the draw of the HOLD branch
Confidence(inds, s, rHold) ==
    LET tb == TotalBuyStrength(inds, s)
        ts == TotalSellStrength(inds, s)
        a == Action(inds, s)
    IN  IF a = "BUY" THEN WinConfidence(tb, tb, ts)
        ELSE IF a = "SELL" THEN WinConfidence(ts, tb, ts)
        ELSE HoldConfidence(rHold)

\* Volatility without the 0.02 floor
Volatility_NoFloor(r) == RMul(r, Rat(3, 100))

\* const volatility = 0.02 + Math.random() * 0.03
Volatility(r) == RAdd(Rat(2, 100), RMul(r, Rat(3, 100)))

\* EntryPrice without the 0.5% offset
EntryPrice_AtPrice(p, a) == p

\* entryPrice: price, price * (1 - 0.005) or price * (1 + 0.005)
EntryPrice(p, a) ==
    IF a = "BUY" THEN RMul(p, RSub(Num(1), Rat(5, 1000)))
    ELSE IF a = "SELL" THEN RMul(p, RAdd(Num(1), Rat(5, 1000)))
    ELSE p

\* TargetPrice with one volatility instead of two
TargetPrice_SingleVol(p, a, v) ==
    IF a = "BUY" THEN RMul(p, RAdd(Num(1), v))
    ELSE IF a = "SELL" THEN RMul(p, RSub(Num(1), v))
    ELSE p

\* targetPrice: price, price * (1 + volatility * 2) or price * (1 - volatility * 2)
TargetPrice(p, a, v) ==
    IF a = "BUY" THEN RMul(p, RAdd(Num(1), RMul(v, Num(2))))
    ELSE IF a = "SELL" THEN RMul(p, RSub(Num(1), RMul(v, Num(2))))
    ELSE p

\* StopLoss with the SELL stop on the BUY side of the price
StopLoss_SellBelow(p, a, v) ==
    IF a = "BUY" THEN RMul(p, RSub(Num(1), v))
    ELSE IF a = "SELL" THEN RMul(p, RSub(Num(1), v))
    ELSE p

\* stopLoss: price, price * (1 - volatility) or price * (1 + volatility)
StopLoss(p, a, v) ==
    IF a = "BUY" THEN RMul(p, RSub(Num(1), v))
    ELSE IF a = "SELL" THEN RMul(p, RAdd(Num(1), v))
    ELSE p

\* Math.abs((targetPrice - entryPrice) / (entryPrice - stopLoss))
RiskReward(entry, target, stop) ==
    MathAbs(RDiv(RSub(target, entry), RSub(entry, stop)))

\* one entry of `reasoning`: a message and the number interpolated into it
Line(text, arg) == [text |-> text, arg |-> arg]

\* BranchReasoning with the sentiment thresholds written 0 instead of 0.1
BranchReasoning_AnySentiment(inds, s) ==
    LET a == Action(inds, s)
    IN  IF a = "BUY" THEN
            <<Line("technical indicators suggest buying",
                   Num(CountSignals(inds, "BUY")))>>
            \o (IF RGt(s, Num(0))
                THEN <<Line("Positive market sentiment supports the buy signal", Num(0))>>
                ELSE << >>)
        ELSE IF a = "SELL" THEN
            <<Line("technical indicators suggest selling",
                   Num(CountSignals(inds, "SELL")))>>
            \o (IF RLt(s, Num(0))
                THEN <<Line("Negative market sentiment supports the sell signal", Num(0))>>
                ELSE << >>)
        ELSE
            <<Line("Mixed signals suggest waiting for clearer direction", Num(0))>>
            \o (IF CountSignals(inds, "HOLD") > 0
                THEN <<Line("indicators are neutral",
                            Num(CountSignals(inds, "HOLD")))>>
                ELSE << >>)

\* the entries pushed in the branch that sets `action`
BranchReasoning(inds, s) ==
    LET a == Action(inds, s)
    IN  IF a = "BUY" THEN
            <<Line("technical indicators suggest buying",
                   Num(CountSignals(inds, "BUY")))>>
            \o (IF RGt(s, Rat(1, 10))
                THEN <<Line("Positive market sentiment supports the buy signal", Num(0))>>
                ELSE << >>)
        ELSE IF a = "SELL" THEN
            <<Line("technical indicators suggest selling",
                   Num(CountSignals(inds, "SELL")))>>
            \o (IF RLt(s, Rat(-1, 10))
                THEN <<Line("Negative market sentiment supports the sell signal", Num(0))>>
                ELSE << >>)
        ELSE
            <<Line("Mixed signals suggest waiting for clearer direction", Num(0))>>
            \o (IF CountSignals(inds, "HOLD") > 0
                THEN <<Line("indicators are neutral",
                            Num(CountSignals(inds, "HOLD")))>>
                ELSE << >>)

\* the entry pushed with the price levels of a BUY or SELL
TargetReasoning(a, entry, target) ==
    IF a = "BUY" THEN
        <<Line("Target: % upside potential",
               ToFixed1(RMul(RDiv(RSub(target, entry), entry), Num(100))))>>
    ELSE IF a = "SELL" THEN
        <<Line("Target: % downside potential",
               ToFixed1(RMul(RDiv(RSub(entry, target), entry), Num(100))))>>
    ELSE << >>

\* generateTradingSignal(price, indicators, sentiment); rHold and rVol are
\* the values of its two Math.random() calls
generateTradingSignal(p, inds, s, rHold, rVol) ==
    LET a == Action(inds, s)
        v == Volatility(rVol)
        entry == EntryPrice(p, a)
        target == TargetPrice(p, a, v)
        stop == StopLoss(p, a, v)
    IN  [action |-> a,
         confidence |-> Confidence(inds, s, rHold),
         entryPrice |-> entry,
         targetPrice |-> target,
         stopLoss |-> stop,
         riskReward |-> RiskReward(entry, target, stop),
         timeframe |-> "1-3 days",
         reasoning |-> BranchReasoning(inds, s) \o TargetReasoning(a, entry, target)]

\* RiskLevel with the thresholds written >=
RiskLevel_Inclusive(confidence) ==
    IF RGe(confidence, Num(80)) THEN "LOW"
    ELSE IF RGe(confidence, Num(60)) THEN "MEDIUM"
    ELSE "HIGH"

\* the risk level generateSignalData derives from signal.confidence
RiskLevel(confidence) ==
    IF RGt(confidence, Num(80)) THEN "LOW"
    ELSE IF RGt(confidence, Num(60)) THEN "MEDIUM"
    ELSE "HIGH"

----------------------------------------------------------------------------
(* NewsAnalyzer: fetchYahooFinanceNews *)

\* ticker symbols the user selects; "AAPL" is the initial selectedStock
Stocks == {"AAPL", "TSLA"}

\* how the fetch() promise settles: rejected, or resolved with response.ok
\* false or true
NetworkOutcomes == {"rejected", "notOk", "ok"}

\* an element of data.items: null, or an object whose title and description
\* hold `bull` bullish and `bear` bearish keywords
RawItems ==
    {[isNull |-> TRUE, bull |-> 0, bear |-> 0]}
        \cup {[isNull |-> FALSE, bull |-> b[1], bear |-> b[2]] :
                  b \in {<<1, 0>>, <<0, 1>>, <<0, 0>>}}

RawItemLists == UNION {[1 .. n -> RawItems] : n \in 0 .. MaxItems}

\* how response.json() settles: rejected (parses = FALSE), or resolved with
\* data.status and data.items (hasItems = FALSE: items missing)
Bodies ==
    {[parses |-> FALSE, status |-> "error", hasItems |-> FALSE, items |-> << >>]}
        \cup [parses : {TRUE}, status : {"ok", "error"}, hasItems : {FALSE},
              items : {<< >>}]
        \cup [parses : {TRUE}, status : {"ok", "error"}, hasItems : {TRUE},
              items : RawItemLists]

NoBody == [parses |-> FALSE, status |-> "error", hasItems |-> FALSE, items |-> << >>]

\* analyzeSentiment(title, summary).sentiment from the keyword scores
analyzeSentiment(bullishScore, bearishScore) ==
    IF bullishScore > bearishScore THEN "bullish"
    ELSE IF bearishScore > bullishScore THEN "bearish"
    ELSE "neutral"

\* data.items.slice(0, 10)
Slice10(items) == SubSeq(items, 1, IF Len(items) < 10 THEN Len(items) ELSE 10)

\* the map callback throws a TypeError on a null item (item.title)
MapThrows(items) == \E i \in DOMAIN Slice10(items) : Slice10(items)[i].isNull

\* data.items.slice(0, 10).map(...): the items of the feed queried for `stock`
MapItems(items, stock) ==
    [i \in DOMAIN Slice10(items) |->
        [source |-> "Yahoo Finance",
         sentiment |-> analyzeSentiment(Slice10(items)[i].bull, Slice10(items)[i].bear),
         stock |-> stock]]

\* the try block is left at `await fetch(...)` or at `if (!response.ok)`
NetThrows(net) == net = "rejected" \/ net = "notOk"

\* BodyThrows without the check of data.status
BodyThrows_NoStatusCheck(body) ==
    \/ ~body.parses
    \/ ~body.hasItems
    \/ MapThrows(body.items)

\* the try block is left at `await response.json()`, at the check of
\* data.status and data.items, or inside the map callback
BodyThrows(body) ==
    \/ ~body.parses
    \/ body.status # "ok"
    \/ ~body.hasItems
    \/ MapThrows(body.items)

\* generateMockNews(): the five templates filled in with selectedStock
generateMockNews(stock) ==
    <<[source |-> "Financial Times", sentiment |-> "bullish", stock |-> stock],
      [source |-> "Reuters", sentiment |-> "neutral", stock |-> stock],
      [source |-> "Bloomberg", sentiment |-> "bullish", stock |-> stock],
      [source |-> "Wall Street Journal", sentiment |-> "bearish", stock |-> stock],
      [source |-> "TechCrunch", sentiment |-> "bullish", stock |-> stock]>>

\* the sequence q without its i-th element
RemoveAt(q, i) == SubSeq(q, 1, i - 1) \o SubSeq(q, i + 1, Len(q))

NewsIdle ==
    /\ selectedStock = "AAPL"
    /\ news = << >>
    /\ newsLoading = FALSE
    /\ newsLastUpdated = FALSE
    /\ newsToast = "none"
    /\ newsFetches = << >>
    /\ newsSettled = [stock |-> "AAPL", net |-> "none", body |-> NoBody]
    /\ newsUnhandled = FALSE

----------------------------------------------------------------------------
(* TradingSignals: generateSignalData *)

\* lines 183-198 of generateSignalData, from the price p and sentiment s it
\* has drawn: d holds the values of the five Math.random() calls of
\* calculateTechnicalIndicators, rHold and rVol those of generateTradingSignal
SignalDataFor(p, s, d, rHold, rVol) ==
    LET inds == calculateTechnicalIndicators(p, d)
        sig == generateTradingSignal(p, inds, s, rHold, rVol)
    IN  [currentPrice |-> p,
         signal |-> sig,
         indicators |-> inds,
         marketSentiment |-> s,
         riskLevel |-> RiskLevel(sig.confidence)]

\* generateSignalData with the signal computed for a price drawn anew
generateSignalData_TwoPrices(t) ==
    LET p == RAdd(Num(100), RMul(t[1], Num(400)))
        q == RAdd(Num(100), RMul(t[2], Num(400)))
        s == RMul(RSub(t[2], Rat(1, 2)), Num(2))
        d == [i \in 1 .. 5 |-> t[i + 2]]
        sd == SignalDataFor(p, s, d, t[8], t[9])
    IN  [sd EXCEPT !.signal = generateTradingSignal(q, sd.indicators, s, t[8], t[9])]

\* generateSignalData(); t holds the values of the Math.random() calls of one
\* evaluation in the order they are made: price, sentiment, the five of
\* calculateTechnicalIndicators, the HOLD confidence (drawn only on that
\* branch) and the volatility
generateSignalData(t) ==
    LET p == RAdd(Num(100), RMul(t[1], Num(400)))
        s == RMul(RSub(t[2], Rat(1, 2)), Num(2))
        d == [i \in 1 .. 5 |-> t[i + 2]]
    IN  SignalDataFor(p, s, d, t[8], t[9])

NoToast == [title |-> "none", stock |-> "none"]

SignalsIdle ==
    /\ signalData = << >>
    /\ sigLoading = FALSE
    /\ sigLastUpdated = FALSE
    /\ sigToast = NoToast
    /\ sigFetches = << >>

----------------------------------------------------------------------------
(* The calls checked: arguments drawn from bounded sets *)

\* strengths of the BUY and SELL indicators handed in (all non-negative)
Strengths == {Num(0), Num(10), Num(40)}

\* an indicator as generateTradingSignal reads it: its signal and strength
IndicatorInputs ==
    [signal : {"BUY", "SELL"}, strength : Strengths]
        \cup [signal : {"HOLD"}, strength : {Num(20)}]

IndicatorLists == UNION {[1 .. n -> IndicatorInputs] : n \in 0 .. MaxInd}

\* market sentiment, in [-1, 1]
Sentiments == {Rat(k, 20) : k \in {-20, -3, -2, 0, 2, 3, 20}}

\* current price, in [100, 500)
Prices == {Num(100), Rat(999, 2)}

\* confidences handed to the risk-level step, around its two thresholds
Confidences ==
    {Num(0), Num(50), Rat(119, 2), Num(60), Rat(121, 2), Num(70),
     Rat(159, 2), Num(80), Rat(161, 2), Num(95), Num(100)}

NoSignal ==
    [action |-> "NONE", confidence |-> NaN, entryPrice |-> NaN,
     targetPrice |-> NaN, stopLoss |-> NaN, riskReward |-> NaN,
     timeframe |-> "", reasoning |-> << >>]

EngineIdle ==
    /\ price = Num(100)
    /\ indicators = << >>
    /\ sentiment = Num(0)
    /\ signal = NoSignal
    /\ pc = "idle"

\* a call that has not been made
NoEval == [price |-> Num(0), rHold |-> Num(0), rVol |-> Num(0), signal |-> NoSignal]

PairIdle ==
    /\ evalA = NoEval
    /\ evalB = NoEval

\* TradingChart before it is mounted
ChartIdle ==
    /\ chartData = << >>
    /\ timeframe = "1D"
    /\ chartLoading = FALSE
    /\ chartFetches = << >>

\* the JavaScript value null
Null == "NULL"

\* no page loaded, nothing stored
AuthIdle ==
    /\ user = Null
    /\ token = Null
    /\ authLoading = TRUE
    /\ storage = [auth_token |-> Null, user_data |-> Null]
    /\ url = [token |-> Null, user |-> Null]
    /\ authToast = "none"
    /\ authPc = "idle"
    /\ sinceLogout = FALSE

RiskIdle ==
    /\ confA = Num(0)
    /\ confB = Num(0)
    /\ riskA = "none"
    /\ riskB = "none"

\* the documented scenario: RSI BUY 40, MACD BUY 30, MA SELL 10, sentiment 0.2
ScenarioBuy ==
    [price |-> Num(100),
     indicators |-> <<[signal |-> "BUY", strength |-> Num(40)],
                      [signal |-> "BUY", strength |-> Num(30)],
                      [signal |-> "SELL", strength |-> Num(10)]>>,
     sentiment |-> Rat(1, 5)]

\* the documented scenario: all five indicators HOLD, sentiment 0
ScenarioAllHold ==
    [price |-> Num(100),
     indicators |-> [i \in 1 .. 5 |-> [signal |-> "HOLD", strength |-> Num(20)]],
     sentiment |-> Num(0)]

\* the argument triples of the calls checked
CallInputs ==
    [price : Prices, indicators : IndicatorLists, sentiment : Sentiments]
        \cup {ScenarioBuy, ScenarioAllHold}

\* a call of generateTradingSignal is about to be made
Init ==
    /\ \E c \in CallInputs :
           /\ price = c.price
           /\ indicators = c.indicators
           /\ sentiment = c.sentiment
    /\ signal = NoSignal
    /\ pc = "call"
    /\ RiskIdle
    /\ NewsIdle
    /\ SignalsIdle
    /\ PairIdle
    /\ ChartIdle
    /\ AuthIdle

\* the call runs to its return statement
GenerateTradingSignal ==
    /\ pc = "call"
    /\ \E rHold \in MathRandom, rVol \in MathRandom :
           signal' = generateTradingSignal(price, indicators, sentiment, rHold, rVol)
    /\ pc' = "return"
    /\ UNCHANGED <<price, indicators, sentiment, notEngine>>

Next == GenerateTradingSignal

Spec == Init /\ [][Next]_vars

\* two confidences are about to be classified
InitRisk ==
    /\ confA \in Confidences
    /\ confB \in Confidences
    /\ riskA = "none"
    /\ riskB = "none"
    /\ EngineIdle
    /\ NewsIdle
    /\ SignalsIdle
    /\ PairIdle
    /\ ChartIdle
    /\ AuthIdle

DetermineRiskLevelA ==
    /\ riskA = "none"
    /\ riskA' = RiskLevel(confA)
    /\ UNCHANGED <<confA, confB, riskB, notRisk>>

DetermineRiskLevelB ==
    /\ riskB = "none"
    /\ riskB' = RiskLevel(confB)
    /\ UNCHANGED <<confA, confB, riskA, notRisk>>

NextRisk == DetermineRiskLevelA \/ DetermineRiskLevelB

SpecRisk == InitRisk /\ [][NextRisk]_vars

----------------------------------------------------------------------------
(* NewsAnalyzer: the component *)

\* NewsAnalyzer is mounted and its effect has called fetchNews()
InitNews ==
    /\ selectedStock = "AAPL"
    /\ news = << >>
    /\ newsLoading = TRUE
    /\ newsLastUpdated = FALSE
    /\ newsToast = "none"
    /\ newsFetches = <<[stock |-> "AAPL", pc |-> "fetch"]>>
    /\ newsSettled = [stock |-> "AAPL", net |-> "none", body |-> NoBody]
    /\ newsUnhandled = FALSE
    /\ EngineIdle
    /\ RiskIdle
    /\ SignalsIdle
    /\ PairIdle
    /\ ChartIdle
    /\ AuthIdle

\* fetchYahooFinanceNews up to its first await, called with selectedStock = s
StartNewsFetch(s) ==
    /\ Len(newsFetches) < MaxNewsFetches
    /\ newsLoading' = TRUE
    /\ newsFetches' = Append(newsFetches, [stock |-> s, pc |-> "fetch"])

\* the user selects another stock; the effect on [selectedStock] calls fetchNews
NewsSelectStock(s) ==
    /\ s # selectedStock
    /\ selectedStock' = s
    /\ StartNewsFetch(s)
    /\ UNCHANGED <<news, newsLastUpdated, newsToast, newsSettled, newsUnhandled, notNews>>

\* the refresh button, enabled while isLoading is false
NewsRefresh ==
    /\ ~newsLoading
    /\ StartNewsFetch(selectedStock)
    /\ UNCHANGED <<selectedStock, news, newsLastUpdated, newsToast, newsSettled,
                   newsUnhandled, notNews>>

\* NewsCatch with setIsLoading(false) skipped when the catch block ran
NewsCatch_NoFinally(i) ==
    /\ newsToast' = "Using Sample Data"
    /\ news' = generateMockNews(newsFetches[i].stock)
    /\ newsLastUpdated' = TRUE
    /\ newsLoading' = newsLoading
    /\ newsUnhandled' = newsUnhandled
    /\ newsFetches' = RemoveAt(newsFetches, i)

\* the catch block followed by finally
NewsCatch(i) ==
    /\ newsToast' = "Using Sample Data"
    /\ news' = generateMockNews(newsFetches[i].stock)
    /\ newsLastUpdated' = TRUE
    /\ newsLoading' = FALSE
    /\ newsUnhandled' = newsUnhandled
    /\ newsFetches' = RemoveAt(newsFetches, i)

\* the fetch() of call i settles
NewsFetchSettles(i, net) ==
    /\ newsFetches[i].pc = "fetch"
    /\ IF NetThrows(net)
       THEN /\ NewsCatch(i)
            /\ newsSettled' = [stock |-> newsFetches[i].stock, net |-> net, body |-> NoBody]
       ELSE /\ newsFetches' = [newsFetches EXCEPT ![i].pc = "json"]
            /\ UNCHANGED <<news, newsLoading, newsLastUpdated, newsToast, newsSettled,
                           newsUnhandled>>
    /\ UNCHANGED <<selectedStock, notNews>>

\* the response.json() of call i settles and the call runs to its end
NewsJsonSettles(i, body) ==
    /\ newsFetches[i].pc = "json"
    /\ newsSettled' = [stock |-> newsFetches[i].stock, net |-> "ok", body |-> body]
    /\ IF BodyThrows(body)
       THEN NewsCatch(i)
       ELSE /\ news' = MapItems(body.items, newsFetches[i].stock)
            /\ newsLastUpdated' = TRUE
            /\ newsToast' = "News Updated"
            /\ newsLoading' = FALSE
            /\ newsUnhandled' = newsUnhandled
            /\ newsFetches' = RemoveAt(newsFetches, i)
    /\ UNCHANGED <<selectedStock, notNews>>

NextNews ==
    \/ \E s \in Stocks : NewsSelectStock(s)
    \/ NewsRefresh
    \/ \E i \in DOMAIN newsFetches, net \in NetworkOutcomes : NewsFetchSettles(i, net)
    \/ \E i \in DOMAIN newsFetches, body \in Bodies : NewsJsonSettles(i, body)

SpecNews == InitNews /\ [][NextNews]_vars

\* every request in flight settles: a pending fetch() and a pending
\* response.json() are each settled in the end
SpecNewsLive ==
    /\ SpecNews
    /\ WF_vars(\E i \in DOMAIN newsFetches, net \in NetworkOutcomes :
                   NewsFetchSettles(i, net))
    /\ WF_vars(\E i \in DOMAIN newsFetches, body \in Bodies :
                   NewsJsonSettles(i, body))

----------------------------------------------------------------------------
(* One call of calculateTechnicalIndicators *)

\* a call of calculateTechnicalIndicators is about to be made
InitIndicators ==
    /\ price \in Prices
    /\ indicators = << >>
    /\ sentiment = Num(0)
    /\ signal = NoSignal
    /\ pc = "indicators"
    /\ RiskIdle
    /\ NewsIdle
    /\ SignalsIdle
    /\ PairIdle
    /\ ChartIdle
    /\ AuthIdle

\* the call runs to its return statement
CalculateTechnicalIndicators ==
    /\ pc = "indicators"
    /\ \E d \in [1 .. 5 -> IndicatorRandom] :
           indicators' = calculateTechnicalIndicators(price, d)
    /\ pc' = "indicators-return"
    /\ UNCHANGED <<price, sentiment, signal, notEngine>>

NextIndicators == CalculateTechnicalIndicators

SpecIndicators == InitIndicators /\ [][NextIndicators]_vars

----------------------------------------------------------------------------
(* TradingSignals: the component *)

\* nine draws given in tenths
Tape(k) == [i \in 1 .. 9 |-> Rat(k[i], 10)]

\* the draws of the evaluations checked: all four moving indicators BUY,
\* all four SELL, none of them decisive, and three mixed ones
SignalTapes ==
    {Tape(k) : k \in {<<0, 5, 0, 9, 5, 0, 9, 0, 0>>,
                      <<5, 0, 9, 0, 0, 9, 0, 5, 5>>,
                      <<9, 5, 5, 5, 5, 5, 5, 9, 9>>,
                      <<2, 9, 0, 9, 0, 9, 5, 0, 5>>,
                      <<7, 2, 9, 5, 9, 0, 0, 5, 0>>,
                      <<0, 9, 5, 5, 0, 0, 9, 5, 9>>}}

\* TradingSignals is mounted and its effect has called fetchSignals()
InitSignals ==
    /\ selectedStock = "AAPL"
    /\ signalData = << >>
    /\ sigLoading = TRUE
    /\ sigLastUpdated = FALSE
    /\ sigToast = NoToast
    /\ sigFetches = <<"AAPL">>
    /\ news = << >>
    /\ newsLoading = FALSE
    /\ newsLastUpdated = FALSE
    /\ newsToast = "none"
    /\ newsFetches = << >>
    /\ newsSettled = [stock |-> "AAPL", net |-> "none", body |-> NoBody]
    /\ newsUnhandled = FALSE
    /\ EngineIdle
    /\ RiskIdle
    /\ PairIdle
    /\ ChartIdle
    /\ AuthIdle

\* fetchSignals up to its await, called with selectedStock = s
StartSignalsFetch(s) ==
    /\ Len(sigFetches) < MaxSigFetches
    /\ sigLoading' = TRUE
    /\ sigFetches' = Append(sigFetches, s)

\* the selectedStock prop changes; the effect on [selectedStock] calls
\* fetchSignals
SigSelectStock(s) ==
    /\ s # selectedStock
    /\ selectedStock' = s
    /\ StartSignalsFetch(s)
    /\ UNCHANGED <<signalData, sigLastUpdated, sigToast, notSignals>>

\* the refresh button, enabled while isLoading is false
SigRefresh ==
    /\ ~sigLoading
    /\ StartSignalsFetch(selectedStock)
    /\ UNCHANGED <<selectedStock, signalData, sigLastUpdated, sigToast, notSignals>>

\* the 2000 ms timer of the oldest waiting call fires (equal delays fire in
\* the order they were set) and the call runs to its end; generateSignalData
\* throws nothing, so the catch block is never entered
SigTimerFires ==
    /\ sigFetches # << >>
    /\ \E t \in SignalTapes : signalData' = <<generateSignalData(t)>>
    /\ sigLastUpdated' = TRUE
    /\ sigToast' = [title |-> "Signals Updated", stock |-> Head(sigFetches)]
    /\ sigLoading' = FALSE
    /\ sigFetches' = Tail(sigFetches)
    /\ UNCHANGED <<selectedStock, notSignals>>

NextSignals ==
    \/ \E s \in Stocks : SigSelectStock(s)
    \/ SigRefresh
    \/ SigTimerFires

SpecSignals == InitSignals /\ [][NextSignals]_vars

----------------------------------------------------------------------------
(* TradingChart *)

Timeframes == {"1D", "1W", "1M"}

\* const dataPoints = timeframe === '1D' ? 24 : timeframe === '1W' ? 7 : 30
DataPoints(tf) == IF tf = "1D" THEN 24 ELSE IF tf = "1W" THEN 7 ELSE 30

\* timeLabel of point i (from 0): `${i}:00` or `Day ${i + 1}`
TimeLabel(tf, i) ==
    IF tf = "1D" THEN [n |-> i, text |-> ":00"] ELSE [n |-> i + 1, text |-> "Day"]

\* Math.max(a, b)
MathMax(a, b) == IF IsNaN(a) \/ IsNaN(b) THEN NaN ELSE IF RGe(a, b) THEN a ELSE b

\* generateChartData(timeframe); rBase is the draw of basePrice and r the
\* value every Math.random() call inside the loop returns, so that point i
\* (from 0) follows i + 1 equal price changes
generateChartData(tf, rBase, r) ==
    LET basePrice == RAdd(RMul(rBase, Num(500)), Num(100))
        priceChange == RMul(RSub(r, Rat(1, 2)), Num(10))
    IN  [k \in 1 .. DataPoints(tf) |->
            [time |-> TimeLabel(tf, k - 1),
             price |-> MathMax(RAdd(basePrice, RMul(Num(k), priceChange)), Num(10)),
             volume |-> RAdd(RMul(r, Num(1000000)), Num(500000)),
             sentiment |-> RMul(RSub(r, Rat(1, 2)), Num(2))]]

\* TradingChart is mounted and its effect has called fetchChartData()
InitChart ==
    /\ selectedStock = "AAPL"
    /\ chartData = << >>
    /\ timeframe = "1D"
    /\ chartLoading = TRUE
    /\ chartFetches = <<"1D">>
    /\ news = << >>
    /\ newsLoading = FALSE
    /\ newsLastUpdated = FALSE
    /\ newsToast = "none"
    /\ newsFetches = << >>
    /\ newsSettled = [stock |-> "AAPL", net |-> "none", body |-> NoBody]
    /\ newsUnhandled = FALSE
    /\ EngineIdle
    /\ RiskIdle
    /\ SignalsIdle
    /\ PairIdle
    /\ AuthIdle

\* fetchChartData up to its await, called with timeframe = tf
StartChartFetch(tf) ==
    /\ Len(chartFetches) < MaxChartFetches
    /\ chartLoading' = TRUE
    /\ chartFetches' = Append(chartFetches, tf)

\* the selectedStock prop changes; the effect on [selectedStock, timeframe]
\* calls fetchChartData
ChartSelectStock(s) ==
    /\ s # selectedStock
    /\ selectedStock' = s
    /\ StartChartFetch(timeframe)
    /\ UNCHANGED <<chartData, timeframe, notChart>>

\* a timeframe button sets another timeframe; the effect calls fetchChartData
SetTimeframe(tf) ==
    /\ tf # timeframe
    /\ timeframe' = tf
    /\ StartChartFetch(tf)
    /\ UNCHANGED <<selectedStock, chartData, notChart>>

\* the waiting call whose timer fires next: for timers of equal delay set
\* with setTimeout the newest fires first
NextTimer_Newest(q) == Len(q)

\* the waiting call whose timer fires next: timers of equal delay fire in
\* the order they were set
NextTimer(q) == 1

\* the 1000 ms timer of a waiting call fires and the call runs to its end
ChartTimerFires ==
    /\ chartFetches # << >>
    /\ LET i == NextTimer(chartFetches)
       IN  /\ \E rBase \in MathRandom, r \in MathRandom :
                  chartData' = generateChartData(chartFetches[i], rBase, r)
           /\ chartFetches' = RemoveAt(chartFetches, i)
    /\ chartLoading' = FALSE
    /\ UNCHANGED <<selectedStock, timeframe, notChart>>

NextChart ==
    \/ \E s \in Stocks : ChartSelectStock(s)
    \/ \E tf \in Timeframes : SetTimeframe(tf)
    \/ ChartTimerFires

SpecChart == InitChart /\ [][NextChart]_vars

----------------------------------------------------------------------------
(* AuthProvider *)

\* the User objects that log in
Users == {"google-user", "facebook-user"}

\* JSON.stringify(v) of null or a User
JSONStringify(v) ==
    IF v = Null THEN "null"
    ELSE IF v = "google-user" THEN "json:google-user"
    ELSE "json:facebook-user"

\* JSON.parse(s) throws a SyntaxError: s is not a JSON text ("" is none)
JSONParseThrows(s) == s \notin {JSONStringify(v) : v \in Users \cup {Null}}

\* JSON.parse(s) of a JSON text
JSONParse(s) == CHOOSE v \in Users \cup {Null} : JSONStringify(v) = s

\* decodeURIComponent(s) throws a URIError: a '%' with no two hex digits
DecodeThrows(s) == s = "%"

\* decodeURIComponent(s): escape sequences are replaced, other text is kept
Decode(s) == IF s = "%6Eull" THEN "null" ELSE s

\* a value that counts as true in `a && b`: neither null nor the empty string
Truthy(s) == s # Null /\ s # ""

NoItems == [auth_token |-> Null, user_data |-> Null]
NoParams == [token |-> Null, user |-> Null]

\* what localStorage may hold when the page is first loaded
Storages ==
    [auth_token : {Null, "", "tokA"},
     user_data : {Null, "", "{bad", "null", "json:google-user"}]

\* the parameters the page may be loaded with, as urlParams.get returns them
Urls ==
    [token : {Null, "", "tokB"},
     user : {Null, "", "%", "{bad", "null", "%6Eull", "json:facebook-user"}]

\* if (savedToken && savedUser)
HasSession(st) == Truthy(st.auth_token) /\ Truthy(st.user_data)

\* if (authToken && userData)
HasCallback(u) == Truthy(u.token) /\ Truthy(u.user)

\* line 81 throws
CallbackParseThrows(u) == DecodeThrows(u.user) \/ JSONParseThrows(Decode(u.user))

\* TokenAfterCallback with setToken(authToken) called before the parse
TokenAfterCallback_SetFirst(u, old) == IF HasCallback(u) THEN u.token ELSE old

\* the token state after handleOAuthCallback, `old` before it
TokenAfterCallback(u, old) ==
    IF HasCallback(u) /\ ~CallbackParseThrows(u) THEN u.token ELSE old

\* what AuthenticatedApp renders
Screen ==
    IF authLoading THEN "loading" ELSE IF user = Null THEN "login" ELSE "dashboard"

\* the page has been loaded and AuthProvider rendered once, effects pending
InitAuth ==
    /\ user = Null
    /\ token = Null
    /\ authLoading = TRUE
    /\ storage \in Storages
    /\ url \in Urls
    /\ authToast = "none"
    /\ authPc = "rendered"
    /\ sinceLogout = FALSE
    /\ EngineIdle
    /\ RiskIdle
    /\ NewsIdle
    /\ SignalsIdle
    /\ PairIdle
    /\ ChartIdle

\* the first effect: restore the session from localStorage. A throw of
\* JSON.parse leaves the effect before setIsLoading(false); React then
\* unmounts the tree and the second effect of the component is not run
RestoreEffect ==
    /\ authPc = "rendered"
    /\ IF HasSession(storage) /\ JSONParseThrows(storage.user_data)
       THEN /\ authPc' = "crashed"
            /\ UNCHANGED <<user, token, authLoading>>
       ELSE /\ authPc' = "restored"
            /\ token' = IF HasSession(storage) THEN storage.auth_token ELSE token
            /\ user' = IF HasSession(storage) THEN JSONParse(storage.user_data) ELSE user
            /\ authLoading' = FALSE
    /\ UNCHANGED <<storage, url, authToast, sinceLogout, notAuth>>

\* the second effect: handleOAuthCallback
OAuthEffect ==
    /\ authPc = "restored"
    /\ authPc' = "mounted"
    /\ token' = TokenAfterCallback(url, token)
    /\ IF HasCallback(url) /\ ~CallbackParseThrows(url)
       THEN LET parsed == JSONParse(Decode(url.user))
            IN  /\ user' = parsed
                /\ storage' = [auth_token |-> url.token,
                               user_data |-> JSONStringify(parsed)]
                /\ url' = NoParams
                \* `user.provider` throws a TypeError when the parameter parsed to null
                /\ authToast' = IF parsed = Null THEN "Login Error" ELSE "Welcome!"
       ELSE /\ authToast' = IF HasCallback(url) THEN "Login Error" ELSE authToast
            /\ UNCHANGED <<user, storage, url>>
    /\ UNCHANGED <<authLoading, sinceLogout, notAuth>>

\* the page is loaded again with the parameters u: React state starts anew,
\* localStorage is kept
AuthLoad(u) ==
    /\ authPc \in {"mounted", "crashed", "redirecting"}
    /\ user' = Null
    /\ token' = Null
    /\ authLoading' = TRUE
    /\ url' = u
    /\ authToast' = "none"
    /\ authPc' = "rendered"
    /\ sinceLogout' = (sinceLogout /\ u = NoParams)
    /\ UNCHANGED <<storage, notAuth>>

\* login(provider) from a button of the login screen
AuthLogin ==
    /\ authPc = "mounted"
    /\ Screen = "login"
    /\ authLoading' = TRUE
    /\ authPc' = "redirecting"
    /\ sinceLogout' = FALSE
    /\ UNCHANGED <<user, token, storage, url, authToast, notAuth>>

\* AuthLogout that leaves localStorage as it is
AuthLogout_KeepsStorage ==
    /\ authPc = "mounted"
    /\ Screen = "dashboard"
    /\ user' = Null
    /\ token' = Null
    /\ authToast' = "Logged out"
    /\ sinceLogout' = TRUE
    /\ UNCHANGED <<storage, authLoading, url, authPc, notAuth>>

\* logout() from the button of the dashboard
AuthLogout ==
    /\ authPc = "mounted"
    /\ Screen = "dashboard"
    /\ user' = Null
    /\ token' = Null
    /\ storage' = NoItems
    /\ authToast' = "Logged out"
    /\ sinceLogout' = TRUE
    /\ UNCHANGED <<authLoading, url, authPc, notAuth>>

NextAuth ==
    \/ RestoreEffect
    \/ OAuthEffect
    \/ \E u \in Urls : AuthLoad(u)
    \/ AuthLogin
    \/ AuthLogout

SpecAuth == InitAuth /\ [][NextAuth]_vars

----------------------------------------------------------------------------
(* Two calls of generateTradingSignal on the same indicators and sentiment *)

\* the indicator lists of the two scenarios and every list of two indicators
PairIndicatorLists ==
    {ScenarioBuy.indicators, ScenarioAllHold.indicators}
        \cup [1 .. 2 -> IndicatorInputs]

PairSentiments == {Num(-1), Num(0), Rat(3, 20)}

\* the two calls are about to be made, each with a price of its own
InitPair ==
    /\ indicators \in PairIndicatorLists
    /\ sentiment \in PairSentiments
    /\ \E pA \in Prices, pB \in Prices :
           /\ evalA = [NoEval EXCEPT !.price = pA]
           /\ evalB = [NoEval EXCEPT !.price = pB]
    /\ price = Num(100)
    /\ signal = NoSignal
    /\ pc = "pair"
    /\ RiskIdle
    /\ NewsIdle
    /\ SignalsIdle
    /\ ChartIdle
    /\ AuthIdle

\* the call ev with its result for the draws rHold and rVol
Evaluated(ev, rHold, rVol) ==
    [price |-> ev.price, rHold |-> rHold, rVol |-> rVol,
     signal |-> generateTradingSignal(ev.price, indicators, sentiment, rHold, rVol)]

EvaluateA ==
    /\ pc = "pair"
    /\ evalA.signal = NoSignal
    /\ \E rHold \in MathRandom, rVol \in MathRandom :
           evalA' = Evaluated(evalA, rHold, rVol)
    /\ UNCHANGED <<evalB, indicators, sentiment, notPair>>

EvaluateB ==
    /\ pc = "pair"
    /\ evalB.signal = NoSignal
    /\ \E rHold \in MathRandom, rVol \in MathRandom :
           evalB' = Evaluated(evalB, rHold, rVol)
    /\ UNCHANGED <<evalA, indicators, sentiment, notPair>>

NextPair == EvaluateA \/ EvaluateB

SpecPair == InitPair /\ [][NextPair]_vars

----------------------------------------------------------------------------
(* The pipeline of generateSignalData, for any price and sentiment *)

Infinity == Rat(1, 0)

\* prices inside and outside the range generateSignalData draws from
PipelinePrices == {Num(-100), Num(0), Num(100), Rat(999, 2), Infinity, NaN}

PipelineSentiments == {Num(-1), Num(0), Num(1), NaN}

\* lines 183-198 are about to run for a price and a sentiment
InitPipeline ==
    /\ price \in PipelinePrices
    /\ sentiment \in PipelineSentiments
    /\ indicators = << >>
    /\ signal = NoSignal
    /\ pc = "pipeline"
    /\ RiskIdle
    /\ NewsIdle
    /\ SignalsIdle
    /\ PairIdle
    /\ ChartIdle
    /\ AuthIdle

\* indicators, decision and risk level are computed and returned
RunPipeline ==
    /\ pc = "pipeline"
    /\ \E d \in [1 .. 5 -> MathRandom], rHold \in MathRandom, rVol \in MathRandom :
           signalData' = <<SignalDataFor(price, sentiment, d, rHold, rVol)>>
    /\ pc' = "pipeline-return"
    /\ UNCHANGED <<price, indicators, sentiment, signal, riskVars, newsVars,
                   sigLoading, sigLastUpdated, sigToast, sigFetches, pairVars,
                   chartVars, authVars>>

NextPipeline == RunPipeline

SpecPipeline == InitPipeline /\ [][NextPipeline]_vars


----------------------------------------------------------------------------
(* Quantities the properties are stated in *)

Returned == pc = "return"
buyCount == CountSignals(indicators, "BUY")
sellCount == CountSignals(indicators, "SELL")
totalBuyStrength == TotalBuyStrength(indicators, sentiment)
totalSellStrength == TotalSellStrength(indicators, sentiment)
BuyCondition == RGt(totalBuyStrength, totalSellStrength) /\ buyCount >= 2
SellCondition == RGt(totalSellStrength, totalBuyStrength) /\ sellCount >= 2

----------------------------------------------------------------------------
(* Properties of generateTradingSignal *)

\* C1: whenever at least two indicators signal BUY and the total buy strength
\* (sentiment included) exceeds the total sell strength, the returned action
\* is BUY.
C1_BuyRule == (Returned /\ BuyCondition) => signal.action = "BUY"

\* a BUY decided against a non-zero sell total
C1_Witness ==
    /\ Returned
    /\ BuyCondition
    /\ RGt(totalSellStrength, Num(0))
    /\ signal.action = "BUY"

\* C2: whenever at least two indicators signal SELL and the total sell
\* strength exceeds the total buy strength, the returned action is SELL.
C2_SellRule == (Returned /\ SellCondition) => signal.action = "SELL"

\* a SELL decided against a non-zero buy total
C2_Witness ==
    /\ Returned
    /\ SellCondition
    /\ RGt(totalBuyStrength, Num(0))
    /\ signal.action = "SELL"

\* C3: whenever neither the BUY condition nor the SELL condition holds
\* (equal totals and the all-HOLD list with sentiment 0 included), the
\* returned action is HOLD.
C3_HoldOtherwise ==
    (Returned /\ ~BuyCondition /\ ~SellCondition) => signal.action = "HOLD"

\* a HOLD decided on equal non-zero totals although at least two indicators
\* signal BUY
C3_Witness ==
    /\ Returned
    /\ signal.action = "HOLD"
    /\ totalBuyStrength = totalSellStrength
    /\ RGt(totalBuyStrength, Num(0))
    /\ buyCount >= 2

\* C4: the count gate is necessary: BUY is returned only with at least two
\* BUY indicators, SELL only with at least two SELL indicators, and a single
\* BUY indicator whose total dominates yields HOLD.
C4_CountGate ==
    Returned =>
        /\ signal.action = "BUY" => buyCount >= 2
        /\ signal.action = "SELL" => sellCount >= 2
        /\ (buyCount = 1 /\ RGt(totalBuyStrength, totalSellStrength))
               => signal.action = "HOLD"

\* one BUY indicator whose strength dominates, decided HOLD
C4_Witness ==
    /\ Returned
    /\ buyCount = 1
    /\ RGt(totalBuyStrength, totalSellStrength)
    /\ signal.action = "HOLD"

\* C5: confidence lies in [0, 95] for BUY and SELL and in [50, 70] for HOLD.
C5_ConfidenceRange ==
    Returned =>
        /\ signal.action \in {"BUY", "SELL"} =>
               RLe(Num(0), signal.confidence) /\ RLe(signal.confidence, Num(95))
        /\ signal.action = "HOLD" =>
               RLe(Num(50), signal.confidence) /\ RLe(signal.confidence, Num(70))

\* a BUY whose strength share is above 95 percent and whose confidence is 95
C5_Witness ==
    /\ Returned
    /\ signal.action = "BUY"
    /\ RGt(RMul(totalBuyStrength, Num(100)),
           RMul(RAdd(totalBuyStrength, totalSellStrength), Num(95)))
    /\ signal.confidence = Num(95)

\* C6: for every BUY decision on a positive price,
\* targetPrice > entryPrice > stopLoss.
C6_BuyLevels ==
    (Returned /\ signal.action = "BUY" /\ RGt(price, Num(0))) =>
        /\ RGt(signal.targetPrice, signal.entryPrice)
        /\ RGt(signal.entryPrice, signal.stopLoss)

\* a BUY whose stop is the closest the volatility range allows (2 percent)
C6_Witness ==
    /\ Returned
    /\ signal.action = "BUY"
    /\ RGt(price, Num(0))
    /\ signal.stopLoss = RMul(price, Rat(98, 100))

\* C7: for every SELL decision on a positive price,
\* stopLoss > entryPrice > targetPrice.
C7_SellLevels ==
    (Returned /\ signal.action = "SELL" /\ RGt(price, Num(0))) =>
        /\ RGt(signal.stopLoss, signal.entryPrice)
        /\ RGt(signal.entryPrice, signal.targetPrice)

\* a SELL whose stop is the closest the volatility range allows (2 percent)
C7_Witness ==
    /\ Returned
    /\ signal.action = "SELL"
    /\ RGt(price, Num(0))
    /\ signal.stopLoss = RMul(price, Rat(102, 100))

\* the volatility a BUY's stop was computed with: stopLoss = price * (1 - v)
BuyVolatility == RSub(Num(1), RDiv(signal.stopLoss, price))
\* the volatility a SELL's stop was computed with: stopLoss = price * (1 + v)
SellVolatility == RSub(RDiv(signal.stopLoss, price), Num(1))
InVolatilityRange(v) == RLe(Rat(2, 100), v) /\ RLe(v, Rat(5, 100))

\* C8: the price levels are price * 0.995, price * (1 + 2v), price * (1 - v)
\* for BUY, price * 1.005, price * (1 - 2v), price * (1 + v) for SELL and
\* price three times for HOLD, with one volatility v in [0.02, 0.05] behind
\* both the target and the stop.
C8_PriceLevels ==
    Returned =>
        /\ signal.action = "BUY" =>
               /\ signal.entryPrice = RMul(price, Rat(995, 1000))
               /\ InVolatilityRange(BuyVolatility)
               /\ signal.targetPrice =
                      RMul(price, RAdd(Num(1), RMul(Num(2), BuyVolatility)))
        /\ signal.action = "SELL" =>
               /\ signal.entryPrice = RMul(price, Rat(1005, 1000))
               /\ InVolatilityRange(SellVolatility)
               /\ signal.targetPrice =
                      RMul(price, RSub(Num(1), RMul(Num(2), SellVolatility)))
        /\ signal.action = "HOLD" =>
               /\ signal.entryPrice = price
               /\ signal.targetPrice = price
               /\ signal.stopLoss = price

\* a SELL whose volatility lies strictly inside the range
C8_Witness ==
    /\ Returned
    /\ signal.action = "SELL"
    /\ RGt(SellVolatility, Rat(2, 100))
    /\ RLt(signal.targetPrice, RMul(price, Rat(96, 100)))

\* C9: riskReward is a number >= 0 equal to
\* |targetPrice - entryPrice| / |entryPrice - stopLoss|, and where entryPrice
\* equals stopLoss (every HOLD) it is 0 instead of the quotient 0 / 0.
C9_RiskRewardGuarded ==
    Returned =>
        /\ IsFinite(signal.riskReward)
        /\ RGe(signal.riskReward, Num(0))
        /\ signal.entryPrice # signal.stopLoss =>
               signal.riskReward =
                   RDiv(MathAbs(RSub(signal.targetPrice, signal.entryPrice)),
                        MathAbs(RSub(signal.entryPrice, signal.stopLoss)))
        /\ signal.entryPrice = signal.stopLoss => signal.riskReward = Num(0)

----------------------------------------------------------------------------
(* Properties of the risk level *)

Rank(r) == IF r = "LOW" THEN 0 ELSE IF r = "MEDIUM" THEN 1 ELSE 2

\* the level the thresholds 80 and 60 prescribe for confidence c is r
StepFunction(c, r) ==
    /\ r \in {"LOW", "MEDIUM", "HIGH"}
    /\ RGt(c, Num(80)) => r = "LOW"
    /\ (RGt(c, Num(60)) /\ RLe(c, Num(80))) => r = "MEDIUM"
    /\ RLe(c, Num(60)) => r = "HIGH"

\* C10: the risk level is LOW above 80, MEDIUM above 60 up to 80 and HIGH up
\* to 60, for every confidence, and a higher confidence never yields a
\* riskier level.
C10_RiskTier ==
    /\ riskA # "none" => StepFunction(confA, riskA)
    /\ riskB # "none" => StepFunction(confB, riskB)
    /\ (riskA # "none" /\ riskB # "none" /\ RLe(confA, confB))
           => Rank(riskB) <= Rank(riskA)

\* the two thresholds themselves: 60 is HIGH and 80 is MEDIUM
C10_Witness ==
    /\ confA = Num(60)
    /\ riskA = "HIGH"
    /\ confB = Num(80)
    /\ riskB = "MEDIUM"

----------------------------------------------------------------------------
(* Further properties of generateTradingSignal *)

\* |sentiment * 20|, counted for the buy side only when sentiment > 0
BuySentimentShare ==
    IF RGt(sentiment, Num(0)) THEN MathAbs(RMul(sentiment, Num(20))) ELSE Num(0)
\* |sentiment * 20|, counted for the sell side only when sentiment < 0
SellSentimentShare ==
    IF RLt(sentiment, Num(0)) THEN MathAbs(RMul(sentiment, Num(20))) ELSE Num(0)
BuyTotal == RAdd(SumStrength(indicators, "BUY"), BuySentimentShare)
SellTotal == RAdd(SumStrength(indicators, "SELL"), SellSentimentShare)
\* min(95, W / (W + L) * 100)
ShareOf(W, L) ==
    LET x == RMul(RDiv(W, RAdd(W, L)), Num(100))
    IN  IF RGt(x, Num(95)) THEN Num(95) ELSE x
IsScenarioBuy ==
    /\ price = ScenarioBuy.price
    /\ indicators = ScenarioBuy.indicators
    /\ sentiment = ScenarioBuy.sentiment

\* C11: a BUY or SELL has confidence min(95, W / (W + L) * 100), W and L the
\* winning and losing totals with |sentiment * 20| added to the buy total only
\* for sentiment > 0 and to the sell total only for sentiment < 0; the
\* scenario [BUY 40, BUY 30, SELL 10] with sentiment 0.2 is a BUY with
\* confidence 74 / 84 * 100.
C11_ConfidenceFormula ==
    Returned =>
        /\ signal.action = "BUY" => signal.confidence = ShareOf(BuyTotal, SellTotal)
        /\ signal.action = "SELL" => signal.confidence = ShareOf(SellTotal, BuyTotal)
        /\ IsScenarioBuy =>
               signal.action = "BUY" /\ signal.confidence = Rat(7400, 84)

\* the scenario has returned
C11_Witness == Returned /\ IsScenarioBuy /\ signal.action = "BUY"

----------------------------------------------------------------------------
(* Properties of NewsAnalyzer *)

\* the call that settled last ended on one of the failure paths
NewsFailed ==
    \/ newsSettled.net = "rejected"
    \/ newsSettled.net = "notOk"
    \/ /\ newsSettled.net = "ok"
       /\ \/ ~newsSettled.body.parses
          \/ newsSettled.body.status # "ok"
          \/ ~newsSettled.body.hasItems
          \/ \E i \in DOMAIN newsSettled.body.items :
                 i <= 10 /\ newsSettled.body.items[i].isNull

\* C12: on every failure path of the news fetch (rejected request, non-OK
\* status, response status other than 'ok', missing items, an exception while
\* parsing or mapping) nothing escapes fetchYahooFinanceNews: news is the
\* five-item mock dataset of the stock the call was made for, lastUpdated is
\* set and the 'Using Sample Data' notice is the one emitted.
C12_FallbackOnFailure ==
    NewsFailed =>
        /\ ~newsUnhandled
        /\ Len(news) = 5
        /\ \A i \in DOMAIN news :
               news[i].stock = newsSettled.stock /\ news[i].source # "Yahoo Finance"
        /\ newsLastUpdated
        /\ newsToast = "Using Sample Data"

\* a response with status 'ok' whose item list holds a null item was replaced
\* by the mock dataset
C12_Witness ==
    /\ newsSettled.net = "ok"
    /\ newsSettled.body.parses
    /\ newsSettled.body.status = "ok"
    /\ newsSettled.body.hasItems
    /\ \E i \in DOMAIN newsSettled.body.items : newsSettled.body.items[i].isNull
    /\ Len(news) = 5
    /\ newsToast = "Using Sample Data"

\* C17: with both totals zero no 0 / 0 is computed for the confidence: the
\* action is HOLD with a confidence in [50, 70); a BUY or SELL confidence is
\* only ever computed with a total strength above zero.
C17_NoZeroByZero ==
    Returned =>
        /\ (BuyTotal = Num(0) /\ SellTotal = Num(0)) =>
               /\ signal.action = "HOLD"
               /\ RGe(signal.confidence, Num(50))
               /\ RLt(signal.confidence, Num(70))
        /\ signal.action \in {"BUY", "SELL"} =>
               /\ RGt(RAdd(BuyTotal, SellTotal), Num(0))
               /\ IsFinite(signal.confidence)

\* at least two BUY indicators and both totals zero, decided HOLD
C17_Witness ==
    /\ Returned
    /\ buyCount >= 2
    /\ BuyTotal = Num(0)
    /\ SellTotal = Num(0)
    /\ signal.action = "HOLD"

IsCountLine(l) ==
    l.text \in {"technical indicators suggest buying",
                "technical indicators suggest selling",
                "indicators are neutral"}
IsSentimentLine(l) ==
    l.text \in {"Positive market sentiment supports the buy signal",
                "Negative market sentiment supports the sell signal"}
IsTargetLine(l) ==
    l.text \in {"Target: % upside potential", "Target: % downside potential"}
IsMixedLine(l) == l.text = "Mixed signals suggest waiting for clearer direction"
StrongSentiment == RGt(MathAbs(sentiment), Rat(1, 10))

\* the reasoning of a BUY or SELL: count, sentiment only if |sentiment| > 0.1,
\* percentage
DirectionalReasoning ==
    LET r == signal.reasoning
    IN  /\ Len(r) \in {2, 3}
        /\ IsCountLine(r[1])
        /\ r[1].arg = Num(IF signal.action = "BUY" THEN buyCount ELSE sellCount)
        /\ IsTargetLine(r[Len(r)])
        /\ Len(r) = 3 => (IsSentimentLine(r[2]) /\ StrongSentiment)

\* C18 as stated: the reasoning of every decision starts with the
\* indicator-count statement, continues with a sentiment statement only if
\* |sentiment| > 0.1 and ends, for BUY and SELL only, with the percentage
\* statement.
C18_ReasoningAsStated ==
    Returned =>
        LET r == signal.reasoning
        IN  /\ Len(r) >= 1
            /\ IsCountLine(r[1])
            /\ \A i \in 2 .. Len(r) : IsSentimentLine(r[i]) \/ IsTargetLine(r[i])
            /\ (\E i \in DOMAIN r : IsSentimentLine(r[i])) => StrongSentiment
            /\ signal.action \in {"BUY", "SELL"} => DirectionalReasoning
            /\ signal.action = "HOLD" => \A i \in DOMAIN r : ~IsTargetLine(r[i])

\* C18 (amended): the reasoning of a BUY or SELL is the indicator-count
\* statement, then a sentiment statement only if |sentiment| > 0.1, then the
\* percentage statement (2 or 3 entries); the reasoning of a HOLD is the
\* mixed-signals statement followed by the count of neutral indicators only
\* if there is one, without sentiment or percentage statement.
C18_Reasoning ==
    Returned =>
        LET r == signal.reasoning
            holdCount == CountSignals(indicators, "HOLD")
        IN  /\ signal.action \in {"BUY", "SELL"} => DirectionalReasoning
            /\ signal.action = "HOLD" =>
                   /\ Len(r) = (IF holdCount > 0 THEN 2 ELSE 1)
                   /\ IsMixedLine(r[1])
                   /\ Len(r) = 2 =>
                          (IsCountLine(r[2]) /\ r[2].arg = Num(holdCount))

\* a BUY at sentiment 0.1 exactly, whose reasoning has no sentiment statement
C18_Witness ==
    /\ Returned
    /\ signal.action = "BUY"
    /\ sentiment = Rat(1, 10)
    /\ Len(signal.reasoning) = 2

----------------------------------------------------------------------------
(* Properties of calculateTechnicalIndicators *)

IndicatorsReturned == pc = "indicators-return"

\* C14: every call returns exactly five indicators in the order RSI, MACD,
\* MA Cross, Bollinger Bands, Volume.
C14_FiveIndicators ==
    IndicatorsReturned =>
        /\ Len(indicators) = 5
        /\ [i \in 1 .. 5 |-> indicators[i].name]
               = <<"RSI (14)", "MACD", "MA Cross", "Bollinger Bands", "Volume">>

\* a returned list whose RSI, MACD and Volume indicators all signal SELL
C14_Witness ==
    /\ IndicatorsReturned
    /\ Len(indicators) = 5
    /\ indicators[1].signal = "SELL"
    /\ indicators[2].signal = "SELL"
    /\ indicators[5].signal = "SELL"

\* the indicator named n of the returned list
Named(n) == indicators[CHOOSE i \in DOMAIN indicators : indicators[i].name = n]

\* C19: RSI < 30 is BUY, RSI > 70 is SELL and [30, 70] is HOLD; MACD > 0 is
\* BUY, MACD < -1 is SELL, else HOLD; Volume > 70 is BUY, Volume < 30 is SELL,
\* else HOLD.
C19_Thresholds ==
    IndicatorsReturned =>
        LET rsi == Named("RSI (14)")
            macd == Named("MACD")
            vol == Named("Volume")
        IN  /\ RLt(rsi.value, Num(30)) => rsi.signal = "BUY"
            /\ RGt(rsi.value, Num(70)) => rsi.signal = "SELL"
            /\ (RGe(rsi.value, Num(30)) /\ RLe(rsi.value, Num(70)))
                   => rsi.signal = "HOLD"
            /\ RGt(macd.value, Num(0)) => macd.signal = "BUY"
            /\ RLt(macd.value, Num(-1)) => macd.signal = "SELL"
            /\ (RLe(macd.value, Num(0)) /\ RGe(macd.value, Num(-1)))
                   => macd.signal = "HOLD"
            /\ RGt(vol.value, Num(70)) => vol.signal = "BUY"
            /\ RLt(vol.value, Num(30)) => vol.signal = "SELL"
            /\ (RLe(vol.value, Num(70)) /\ RGe(vol.value, Num(30)))
                   => vol.signal = "HOLD"

\* the boundary values: RSI 30, MACD -1 and Volume 70, all HOLD
C19_Witness ==
    /\ IndicatorsReturned
    /\ Named("RSI (14)").value = Num(30)
    /\ Named("RSI (14)").signal = "HOLD"
    /\ Named("MACD").value = Num(-1)
    /\ Named("MACD").signal = "HOLD"
    /\ Named("Volume").value = Num(70)
    /\ Named("Volume").signal = "HOLD"

\* C20: every indicator returned has a strength in [0, 100], for every price
\* of the generated range and every outcome of the draws.
C20_StrengthRange ==
    IndicatorsReturned =>
        \A i \in DOMAIN indicators :
            /\ RGe(indicators[i].strength, Num(0))
            /\ RLe(indicators[i].strength, Num(100))

\* the extreme draws: RSI 0 (strength 100), MACD -2.5 (strength 50) and the
\* widest gap of the moving averages the draws give
C20_Witness ==
    /\ IndicatorsReturned
    /\ Named("RSI (14)").strength = Num(100)
    /\ Named("MACD").strength = Num(50)
    /\ RGt(Named("MA Cross").strength, Num(60))

----------------------------------------------------------------------------
(* Properties of the pipeline of generateSignalData *)

PipelineReturned == pc = "pipeline-return"

Actions == {"BUY", "SELL", "HOLD"}
RiskLevels == {"LOW", "MEDIUM", "HIGH"}

\* C13: for every price, finite or not, and every sentiment, the pipeline
\* returns five indicators that each signal BUY, SELL or HOLD, a decision
\* whose action is BUY, SELL or HOLD and a risk level that is LOW, MEDIUM
\* or HIGH; no other outcome is produced.
C13_Total ==
    PipelineReturned =>
        /\ Len(signalData) = 1
        /\ Len(signalData[1].indicators) = 5
        /\ \A i \in 1 .. 5 : signalData[1].indicators[i].signal \in Actions
        /\ signalData[1].signal.action \in Actions
        /\ signalData[1].riskLevel \in RiskLevels

\* a result for a price that makes an indicator strength NaN
C13_Witness ==
    /\ PipelineReturned
    /\ ~IsFinite(price) \/ price = Num(0)
    /\ \E i \in 1 .. 5 : IsNaN(signalData[1].indicators[i].strength)
    /\ signalData[1].signal.action = "HOLD"
    /\ signalData[1].riskLevel \in RiskLevels

----------------------------------------------------------------------------
(* Properties of TradingSignals *)

\* the values a Math.random() call of generateTradingSignal may have returned
TapeDraws == {t[i] : t \in SignalTapes, i \in 8 .. 9}

\* sd is the result of one evaluation: its signal is the decision for its own
\* price, indicators and sentiment, and its risk level that of the signal
OneEvaluation(sd) ==
    /\ \E rHold \in TapeDraws, rVol \in TapeDraws :
           sd.signal = generateTradingSignal(sd.currentPrice, sd.indicators,
                                             sd.marketSentiment, rHold, rVol)
    /\ \E d \in {[i \in 1 .. 5 |-> t[i + 2]] : t \in SignalTapes} :
           sd.indicators = calculateTechnicalIndicators(sd.currentPrice, d)
    /\ sd.riskLevel = RiskLevel(sd.signal.confidence)

\* C16: after any sequence of stock changes, refreshes and timer expiries,
\* overlapping fetches included, signalData is null or the result of one
\* single evaluation: its signal is the decision for its own currentPrice,
\* indicators and marketSentiment and its riskLevel is the tier of
\* signal.confidence.
C16_OneEvaluation ==
    signalData # << >> => Len(signalData) = 1 /\ OneEvaluation(signalData[1])

\* a result is displayed, it has replaced an earlier one or none, and a later
\* fetch started while its own was waiting is still in flight
C16_Witness ==
    /\ signalData # << >>
    /\ OneEvaluation(signalData[1])
    /\ signalData[1].signal.action # "HOLD"
    /\ sigFetches # << >>
    /\ selectedStock = "TSLA"
    /\ ~sigLoading

----------------------------------------------------------------------------
(* Two calls compared *)

BothReturned == evalA.signal # NoSignal /\ evalB.signal # NoSignal

SameDraws == evalA.rHold = evalB.rHold /\ evalA.rVol = evalB.rVol

----------------------------------------------------------------------------
(* The risk/reward ratio of a BUY or SELL *)

\* (2 * v + 0.005) / (v - 0.005)
RiskRewardOf(v) ==
    RDiv(RAdd(RMul(Num(2), v), Rat(5, 1000)), RSub(v, Rat(5, 1000)))

\* the volatility the returned stop was computed with
DecisionVolatility ==
    IF signal.action = "BUY" THEN BuyVolatility ELSE SellVolatility

\* C29: for every BUY and every SELL decided at a positive price, riskReward
\* is (2 * volatility + 0.005) / (volatility - 0.005), whatever the price and
\* the direction, and lies between 7/3 and 3.
C29_RiskRewardFormula ==
    (Returned /\ signal.action \in {"BUY", "SELL"} /\ RGt(price, Num(0))) =>
        /\ InVolatilityRange(DecisionVolatility)
        /\ signal.riskReward = RiskRewardOf(DecisionVolatility)
        /\ RLe(Rat(7, 3), signal.riskReward)
        /\ RLe(signal.riskReward, Num(3))

\* a SELL at the higher price with a volatility above the floor, its ratio
\* strictly inside the range
C29_Witness ==
    /\ Returned
    /\ signal.action = "SELL"
    /\ price = Rat(999, 2)
    /\ RGt(DecisionVolatility, Rat(2, 100))
    /\ signal.riskReward = RiskRewardOf(DecisionVolatility)
    /\ RLt(signal.riskReward, Num(3))

----------------------------------------------------------------------------
(* The indicators that cannot be neutral, and the one that always is *)

\* C30: at a positive price the MA Cross indicator signals BUY or SELL, never
\* HOLD, and SELL when the two averages are equal; the Bollinger Bands
\* indicator is HOLD with value 50 and strength 0; so at most four of the
\* five indicators are HOLD.
C30_MaCrossAndBollinger ==
    (IndicatorsReturned /\ RGt(price, Num(0))) =>
        LET ma == Named("MA Cross")
            bb == Named("Bollinger Bands")
        IN  /\ ma.signal \in {"BUY", "SELL"}
            /\ ma.value = Num(0) => ma.signal = "SELL"
            /\ bb.signal = "HOLD"
            /\ bb.value = Num(50)
            /\ bb.strength = Num(0)
            /\ CountSignals(indicators, "HOLD") <= 4

\* equal moving averages, and RSI, MACD and Volume all neutral: four HOLD
C30_Witness ==
    /\ IndicatorsReturned
    /\ RGt(price, Num(0))
    /\ Named("MA Cross").value = Num(0)
    /\ Named("MA Cross").signal = "SELL"
    /\ Named("Bollinger Bands").signal = "HOLD"
    /\ CountSignals(indicators, "HOLD") = 4

----------------------------------------------------------------------------
(* NewsAnalyzer: leaving the loading state *)

\* C21: provided every request settles, isLoading becomes false again after
\* every start of a news fetch, whether the call succeeds or takes the catch
\* block, and whenever the call that settled last has failed the news list is
\* not empty.
C21_LoadingEnds ==
    /\ newsLoading ~> ~newsLoading
    /\ [](NewsFailed => news # << >>)

\* a failed call has ended: nothing is in flight, loading is off and the
\* list is filled
C21_Witness ==
    /\ NewsFailed
    /\ newsFetches = << >>
    /\ ~newsLoading
    /\ news # << >>

----------------------------------------------------------------------------
(* NewsAnalyzer: overlapping fetches *)

\* C22: once no news fetch is in flight, the list displayed is the one
\* fetched or mocked for the selected stock: the call whose result was stored
\* last was made for selectedStock, and so was every item of the list.
C22_NewsOfSelectedStock ==
    (newsFetches = << >> /\ newsSettled.net # "none") =>
        /\ newsSettled.stock = selectedStock
        /\ \A i \in DOMAIN news : news[i].stock = selectedStock

----------------------------------------------------------------------------
(* Properties of TradingChart *)

\* C24: whenever no chart fetch is in flight and one has completed, chartData
\* has 24 points for 1D, 7 for 1W and 30 for 1M, labelled for the selected
\* timeframe, however the timeframe was changed while fetches were pending.
C24_PointsOfTimeframe ==
    (chartFetches = << >> /\ chartData # << >>) =>
        /\ timeframe = "1D" => Len(chartData) = 24
        /\ timeframe = "1W" => Len(chartData) = 7
        /\ timeframe = "1M" => Len(chartData) = 30
        /\ chartData[1].time.text = ":00" <=> timeframe = "1D"

\* the week's seven points are displayed and nothing is in flight
C24_Witness ==
    /\ chartFetches = << >>
    /\ ~chartLoading
    /\ timeframe = "1W"
    /\ selectedStock = "TSLA"
    /\ Len(chartData) = 7

\* C23: in each of the three cards isLoading is true in every state in which
\* a fetch of that card is still in flight.
C23_LoadingWhileInFlight ==
    /\ sigFetches # << >> => sigLoading
    /\ chartFetches # << >> => chartLoading
    /\ newsFetches # << >> => newsLoading

----------------------------------------------------------------------------
(* Properties of AuthProvider *)

\* C25: after logout, and through any later load of the page without OAuth
\* parameters, user and token are null and neither 'auth_token' nor
\* 'user_data' is stored; once such a load has run its effects the login
\* screen is rendered, not the dashboard.
C25_LoggedOutStays ==
    sinceLogout =>
        /\ user = Null
        /\ token = Null
        /\ storage = NoItems
        /\ authPc = "mounted" => Screen = "login"

\* the page was loaded again after a logout and shows the login screen
C25_Witness ==
    /\ sinceLogout
    /\ authPc = "mounted"
    /\ authToast = "none"
    /\ url = NoParams
    /\ storage = NoItems
    /\ user = Null
    /\ Screen = "login"

\* C26: in every state of the mounted AuthProvider, user is non-null exactly
\* when token is non-null.
C26_UserIffToken ==
    authPc = "mounted" => (user # Null <=> token # Null)

\* C27: when the URL carries a token and a user parameter and the user
\* parameter cannot be decoded or parsed, handleOAuthCallback leaves token,
\* user and localStorage as they were and emits 'Login Error'.
C27_FailedCallback ==
    [][(OAuthEffect /\ HasCallback(url) /\ CallbackParseThrows(url)) =>
           /\ token' = token
           /\ user' = user
           /\ storage' = storage
           /\ authToast' = "Login Error"]_vars

\* a session restored from localStorage is still the one in force after a
\* callback with an unparsable user parameter failed
C27_Witness ==
    /\ authPc = "mounted"
    /\ HasCallback(url)
    /\ CallbackParseThrows(url)
    /\ authToast = "Login Error"
    /\ token = "tokA"
    /\ user = "google-user"
    /\ storage.auth_token = "tokA"

\* C28: once the effects of a mount have run, and unless login() was called,
\* isLoading is false, whatever localStorage held.
C28_LoadingEnds ==
    authPc \in {"restored", "mounted", "crashed"} => ~authLoading

====
